---- MODULE Spec2Model ----
(***************************************************************************)
(* Dual-store document coordinator of PramaIA-VectorstoreService.          *)
(*                                                                         *)
(* DocumentManager (app/utils/document_manager.py) fans every operation    *)
(* out to a relational store (SQLiteMetadataManager, tables `documents`    *)
(* and `document_metadata`) and to a vector store (the ChromaDB collection *)
(* handed out by VectorDBManager).  DatabaseAdminManager adds the repair   *)
(* engine on top of it.  Every coordinator call is one atomic action; the  *)
(* stores' failures (an sqlite error, an unavailable collection, a         *)
(* collection call that raises) are inputs chosen by the environment.      *)
(***************************************************************************)
EXTENDS Integers, FiniteSets, Sequences, TLC

(***************************************************************************)
(* Bounds                                                                  *)
(***************************************************************************)
NumDocs == 2          \* document ids are 1..NumDocs
MaxClock == 2         \* the clock ticks once per coordinator call, MaxClock calls are made

DocIds == 1..NumDocs

(***************************************************************************)
(* Python dictionaries are functions whose domain is the set of keys.      *)
(***************************************************************************)
EmptyDict == [k \in {} |-> ""]

\* d.get(k, default)
DictGet(d, k, default) == IF k \in DOMAIN d THEN d[k] ELSE default

\* {**a, **b}, also a.update(b): the keys of b win
DictMerge(a, b) ==
    [k \in (DOMAIN a) \cup (DOMAIN b) |-> IF k \in DOMAIN b THEN b[k] ELSE a[k]]

\* {k: v for k, v in d.items() if k != key}
DictWithout(d, key) == [k \in (DOMAIN d) \ {key} |-> d[k]]

\* f restricted to the keys outside S (row deletion)
Remove(f, S) == [k \in (DOMAIN f) \ S |-> f[k]]

(***************************************************************************)
(* Inputs: the contents and metadata dictionaries callers pass.            *)
(***************************************************************************)
EmptyText  == ""
ShortText  == "  note  "
BinaryText == "BINARY_FILE:0001"
TextOne    == "valid text one"
TextTwo    == "valid text two"

Contents == {EmptyText, ShortText, BinaryText, TextOne, TextTwo}

\* what Add and Update are called with
AddContents == {EmptyText, TextOne}
UpdateContents == {EmptyText, TextTwo}

EmptyMeta   == EmptyDict
BinaryMeta  == [is_binary |-> TRUE]
KindMeta    == [content_type |-> "Video"]
TypeMeta    == [file_type |-> "image/png"]
AuthorMeta  == [author |-> "ann", lang |-> "it"]
NestedMeta  == [metadata |-> [author |-> "ann", lang |-> "it"]]

Metas == {EmptyMeta, BinaryMeta, KindMeta, TypeMeta, AuthorMeta, NestedMeta}
AddMetas == {BinaryMeta, AuthorMeta, NestedMeta}

\* the partial metadata an Update carries
Deltas == {[author |-> "bob"]}

(***************************************************************************)
(* String primitives, tabulated over the strings of the model.             *)
(***************************************************************************)
\* str.lower()
lower(s) == CASE s = "Video" -> "video" [] OTHER -> s

\* s.startswith(p)
startswith(s, p) ==
    \/ s = p
    \/ s = "image/png" /\ p = "image/"
    \/ s = BinaryText /\ p = "BINARY_FILE:"

\* len(s.strip())
striplen(s) ==
    CASE s = EmptyText  -> 0
      [] s = ShortText  -> 4
      [] s = BinaryText -> 16
      [] OTHER          -> 14

(***************************************************************************)
(* DocumentManager._should_vectorize_content                               *)
(***************************************************************************)
BinaryContentTypes == {"binary", "image", "audio", "video"}
BinaryTypePrefixes ==
    {"image/", "audio/", "video/", "application/zip", "application/octet-stream"}
MinContentLength == 10

should_vectorize_content(content, metadata) ==
    IF DictGet(metadata, "is_binary", FALSE) THEN FALSE
    ELSE IF lower(DictGet(metadata, "content_type", "")) \in BinaryContentTypes THEN FALSE
    ELSE IF \E p \in BinaryTypePrefixes :
                startswith(lower(DictGet(metadata, "file_type", "")), p) THEN FALSE
    ELSE IF startswith(content, "BINARY_FILE:") THEN FALSE
    ELSE IF content = "" \/ striplen(content) < MinContentLength THEN FALSE
    ELSE TRUE

(***************************************************************************)
(* State                                                                   *)
(***************************************************************************)
VARIABLES
    documents,          \* sqlite table `documents`: id -> row
    document_metadata,  \* sqlite table `document_metadata`: <<document_id, key>> -> row
    chroma,             \* the ChromaDB collection: id -> [document, metadata]
    clock,              \* wall clock: one tick per coordinator call; datetime.now() reads it
    last,               \* the coordinator call that ran last, with what it returned
    file_hashes,        \* sqlite table `file_hashes` of the hash ledger: file_hash -> row
    saving,             \* the save_file_hash calls: caller -> where it stands, its arguments
    newly_saved,        \* how often save_file_hash returned True, per (hash, client, path)
    checked,            \* the check_duplicate call that ran last, with what it returned
    jobs,               \* sqlite table `reconciliation_jobs`: id -> row
    running,            \* the _run_reconciliation tasks: job id -> where the task stands
    stats,              \* sqlite table `stats`: key -> value
    settings,           \* sqlite table `settings`: key -> value
    scheduler,          \* the ReconciliationScheduler singleton
    events,             \* the threading.Event objects: event -> is it set
    threads,            \* the scheduler threads: thread -> where it stands
    schedule_jobs,      \* the job list of the `schedule` module: job -> next_run
    trigger_day,        \* the trigger instants that have passed
    fires               \* the calls of _run_reconciliation_job, in order

vars == <<documents, document_metadata, chroma, clock, last,
          file_hashes, saving, newly_saved, checked, jobs, running, stats,
          settings, scheduler, events, threads, schedule_jobs, trigger_day, fires>>

\* the two stores the coordinator writes, the hash ledger, the reconciliation jobs
stores == <<documents, document_metadata, chroma>>
ledger == <<file_hashes, saving, newly_saved, checked>>
reconciliation == <<jobs, running, stats>>
scheduling == <<settings, scheduler, events, threads, schedule_jobs, trigger_day, fires>>

\* what `last` holds before any call, and for the fields a call does not use
NoCall ==
    [op |-> "none", id |-> 0,
     has_content |-> FALSE, content |-> "", has_metadata |-> FALSE, metadata |-> EmptyDict,
     result |-> FALSE,
     sqlite |-> "unreached", vector |-> "unreached",
     source |-> "none", doc |-> EmptyDict,
     repaired_chromadb |-> 0, repaired_sqlite |-> 0, errors |-> {},
     ids |-> {}, report |-> EmptyDict]

\* the callers of save_file_hash: request handlers that may run at the same time
Savers == {"s1", "s2"}

\* the arguments the ledger is called with; "system" and "" are the defaults
Hashes  == {"h1", "h2"}
Clients == {"system", "c2"}
Paths   == {"", "/a"}
Triples == Hashes \X Clients \X Paths

\* a caller that has not called save_file_hash yet
IdleSaver ==
    [pc |-> "idle", file_hash |-> "", document_id |-> 0, client_id |-> "",
     original_path |-> "", result |-> FALSE, raised |-> "none"]

\* `checked` before any check_duplicate call
NoCheck ==
    [file_hash |-> "", client_id |-> "", original_path |-> "", raised |-> "none",
     is_duplicate |-> FALSE, document_id |-> 0, is_path_duplicate |-> FALSE, at |-> 0]

\* how a store call can end for reasons outside the program
SqliteOutcomes == {"ok", "error"}
\* "none": get_collection() returns None; "raise": the collection call raises
VectorOutcomes == {"ok", "none", "raise"}

(***************************************************************************)
(* SQLiteMetadataManager                                                   *)
(***************************************************************************)
\* the value_type column and the str(value) stored with it
value_type(v) == "str"
str(v) == v

\* rows of document_metadata that belong to document_id
MetadataKeys(rows, document_id) == {k \in DOMAIN rows : k[1] = document_id}

\* the metadata dictionary get_document / get_documents rebuild from the rows
RowsToDict(rows, document_id) ==
    [key \in {k[2] : k \in MetadataKeys(rows, document_id)} |->
        rows[<<document_id, key>>].value]

\* SQLiteMetadataManager.get_document: the row plus its metadata, found = FALSE for None
sqlite_get_document(docs, rows, document_id, outcome) ==
    IF outcome = "error" \/ document_id \notin DOMAIN docs
    THEN [found |-> FALSE, source |-> "none", doc |-> EmptyDict]
    ELSE [found |-> TRUE, source |-> "sqlite",
          doc |-> [id |-> document_id,
                   filename |-> docs[document_id].filename,
                   collection |-> docs[document_id].collection,
                   content |-> docs[document_id].content,
                   created_at |-> docs[document_id].created_at,
                   last_updated |-> docs[document_id].last_updated,
                   metadata |-> RowsToDict(rows, document_id)]]

\* SQLiteMetadataManager.get_documents(limit): the newest `limit` documents by
\* created_at, each with its metadata; an sqlite error yields the empty list
DefaultLimit == 1000

sqlite_get_documents(docs, rows, limit, outcome) ==
    LET newer(i) == Cardinality({j \in DOMAIN docs :
                                    docs[j].created_at > docs[i].created_at})
        listed   == IF outcome = "error" THEN {}
                    ELSE {i \in DOMAIN docs : newer(i) < limit}
    IN  [i \in listed |-> sqlite_get_document(docs, rows, i, "ok").doc]

\* SQLiteMetadataManager.add_document: upsert of the row, then the rows of
\* document['metadata'] replace the stored metadata.  An sqlite error leaves
\* the uncommitted transaction behind, so nothing is written.
sqlite_add_document(docs, rows, document, now, outcome) ==
    LET doc_id     == DictGet(document, "id", "")
        filename   == DictGet(document, "filename", "")
        collection == DictGet(document, "collection",
                              DictGet(document, "collection_name", ""))
        content    == DictGet(document, "content", "")
        metadata   == DictGet(document, "metadata", EmptyDict)
        existing   == doc_id \in DOMAIN docs
        kept       == IF existing THEN Remove(rows, MetadataKeys(rows, doc_id))
                      ELSE rows
        row        == [filename |-> filename, collection |-> collection,
                       content |-> content,
                       created_at |-> IF existing THEN docs[doc_id].created_at
                                      ELSE DictGet(metadata, "created_at", now),
                       last_updated |-> now]
        clash      == \E key \in DOMAIN metadata : <<doc_id, key>> \in DOMAIN kept
        inserted   == [k \in {<<doc_id, key>> : key \in DOMAIN metadata} |->
                          [value |-> str(metadata[k[2]]),
                           value_type |-> value_type(metadata[k[2]])]]
    IN  IF outcome = "error" \/ clash
        THEN [ok |-> FALSE, docs |-> docs, rows |-> rows]
        ELSE [ok |-> TRUE,
              docs |-> DictMerge(docs, [i \in {doc_id} |-> row]),
              rows |-> DictMerge(kept, inserted)]

\* SQLiteMetadataManager.delete_document: foreign keys are not enforced on the
\* connection, so the metadata rows of the document stay behind
sqlite_delete_document(docs, document_id, outcome) ==
    IF outcome = "error" \/ document_id \notin DOMAIN docs
    THEN [ok |-> FALSE, docs |-> docs]
    ELSE [ok |-> TRUE, docs |-> Remove(docs, {document_id})]

\* SQLiteMetadataManager.update_metadata: the lookup selects a column `id`
\* that document_metadata does not have; the statement raises, the handler
\* returns False and no row is written
sqlite_update_metadata(rows, document_id, key, value) ==
    [ok |-> FALSE, rows |-> rows]

(***************************************************************************)
(* The ChromaDB collection                                                 *)
(***************************************************************************)
\* collection.add: a new id is stored, an id the collection already holds is left as it is
collection_add(coll, doc_id, content, metadata) ==
    IF doc_id \in DOMAIN coll THEN coll
    ELSE DictMerge(coll, [i \in {doc_id} |-> [document |-> content, metadata |-> metadata]])

\* collection.delete(ids=[doc_id])
collection_delete(coll, doc_id) == Remove(coll, {doc_id})

(***************************************************************************)
(* Database: the settings table                                            *)
(***************************************************************************)
\* the rows _create_tables inserts
DefaultSettings ==
    [schedule_enabled |-> "true", schedule_time |-> "03:00",
     batch_size |-> "1000", delete_missing |-> "true"]

(***************************************************************************)
(* Init                                                                    *)
(***************************************************************************)
Init ==
    /\ documents = EmptyDict
    /\ document_metadata = EmptyDict
    /\ chroma = EmptyDict
    /\ clock = 0
    /\ last = NoCall
    /\ file_hashes = {}
    /\ saving = [s \in Savers |-> IdleSaver]
    /\ newly_saved = [t \in Triples |-> 0]
    /\ checked = NoCheck
    /\ jobs = EmptyDict
    /\ stats = EmptyDict
    /\ settings = DefaultSettings
    /\ scheduler = [running |-> FALSE, stop_event |-> 0, scheduler_thread |-> 0, join |-> 0]
    /\ events = EmptyDict
    /\ threads = EmptyDict
    /\ schedule_jobs = EmptyDict
    /\ trigger_day = 0
    /\ fires = << >>
    /\ running = EmptyDict

(***************************************************************************)
(* DocumentManager.add_document                                            *)
(***************************************************************************)
\* a mutation of add_result: a failed vector write fails the Add
add_result_vector_too(sqlite_success, vectorize, vec) ==
    sqlite_success /\ (vectorize => vec = "ok")

\* what add_document returns: False right after a failed sqlite write, True
\* otherwise, whatever became of the ChromaDB write
add_result(sqlite_success, vectorize, vec) == sqlite_success

add_document(doc_id, content, metadata, sq, vec) ==
    LET document_data == DictMerge([id |-> doc_id, content |-> content], metadata)
        written       == sqlite_add_document(documents, document_metadata,
                                             document_data, clock + 1, sq)
        vectorize     == should_vectorize_content(content, metadata)
    IN  /\ clock < MaxClock
        /\ clock' = clock + 1
        /\ UNCHANGED <<ledger, reconciliation, scheduling>>
        /\ documents' = written.docs
        /\ document_metadata' = written.rows
        /\ IF written.ok /\ vectorize /\ vec = "ok"
           THEN chroma' = collection_add(chroma, doc_id, content, metadata)
           ELSE chroma' = chroma
        /\ last' = [NoCall EXCEPT
                      !.op = "add", !.id = doc_id,
                      !.has_content = TRUE, !.content = content,
                      !.has_metadata = TRUE, !.metadata = metadata,
                      !.result = add_result(written.ok, vectorize, vec),
                      !.sqlite = IF written.ok THEN "ok" ELSE "error",
                      !.vector = IF ~written.ok THEN "unreached"
                                 ELSE IF ~vectorize THEN "ineligible"
                                 ELSE IF vec = "ok" THEN "ok" ELSE "failed"]

Add ==
    \E doc_id \in DocIds, content \in AddContents, metadata \in AddMetas,
       sq \in SqliteOutcomes, vec \in VectorOutcomes :
        \* the ChromaDB outcome is chosen only where ChromaDB is called
        /\ (sq = "error" \/ ~should_vectorize_content(content, metadata)) => vec = "ok"
        /\ add_document(doc_id, content, metadata, sq, vec)

(***************************************************************************)
(* DocumentManager.get_document                                            *)
(***************************************************************************)
\* the document rebuilt from a ChromaDB record: {'id', 'content', **doc_metadata}
FromChroma(doc_id, record) ==
    DictMerge([id |-> doc_id, content |-> record.document], record.metadata)

\* a mutation of get_document_result: ChromaDB is asked before sqlite
get_document_vector_first(docs, rows, coll, doc_id, sq, vec) ==
    LET document == sqlite_get_document(docs, rows, doc_id, sq)
    IN  IF vec = "ok" /\ doc_id \in DOMAIN coll
        THEN [found |-> TRUE, source |-> "chroma",
              doc |-> FromChroma(doc_id, coll[doc_id])]
        ELSE document

\* sq: how the sqlite read ends; vec: how get_collection / collection.get end
get_document_result(docs, rows, coll, doc_id, sq, vec) ==
    LET document == sqlite_get_document(docs, rows, doc_id, sq)
    IN  IF document.found THEN document
        ELSE IF vec = "ok" /\ doc_id \in DOMAIN coll
             THEN [found |-> TRUE, source |-> "chroma",
                   doc |-> FromChroma(doc_id, coll[doc_id])]
             ELSE [found |-> FALSE, source |-> "none", doc |-> EmptyDict]

get_document(doc_id, sq, vec) ==
    LET r == get_document_result(documents, document_metadata, chroma, doc_id, sq, vec)
    IN  /\ clock < MaxClock
        /\ clock' = clock + 1
        /\ UNCHANGED <<ledger, reconciliation, scheduling>>
        /\ UNCHANGED <<documents, document_metadata, chroma>>
        /\ last' = [NoCall EXCEPT
                      !.op = "get", !.id = doc_id,
                      !.result = r.found, !.source = r.source, !.doc = r.doc,
                      !.sqlite = sq,
                      !.vector = IF sq = "ok" /\ doc_id \in DOMAIN documents
                                 THEN "unreached"
                                 ELSE IF vec = "ok" THEN "ok" ELSE "failed"]

Get ==
    \E doc_id \in DocIds, sq \in SqliteOutcomes, vec \in VectorOutcomes :
        get_document(doc_id, sq, vec)

(***************************************************************************)
(* DocumentManager.update_document                                         *)
(***************************************************************************)
\* the metadata update_document hands to collection.add
updated_metadata(current_doc, has_metadata, metadata) ==
    LET base == IF current_doc.found THEN current_doc.doc ELSE EmptyDict
    IN  IF has_metadata /\ DOMAIN metadata # {} THEN DictMerge(base, metadata) ELSE base

\* the document_metadata table after update_metadata was called for every
\* key of `keys`, one key after the other
RECURSIVE metadata_after_update(_, _, _, _)
metadata_after_update(rows, doc_id, metadata, keys) ==
    IF keys = {} THEN rows
    ELSE LET key == CHOOSE k \in keys : TRUE
         IN  metadata_after_update(
                 sqlite_update_metadata(rows, doc_id, key, metadata[key]).rows,
                 doc_id, metadata, keys \ {key})

\* vec: get_collection(); sq, get: the reads of the inner get_document;
\* del, add: how collection.delete and collection.add end
update_document(doc_id, has_content, content, has_metadata, metadata, vec, sq, get, del, add) ==
    LET current_doc == get_document_result(documents, document_metadata, chroma,
                                           doc_id, sq, get)
        written     == updated_metadata(current_doc, has_metadata, metadata)
        deleted     == IF del = "ok" THEN collection_delete(chroma, doc_id) ELSE chroma
        reinserted  == has_content /\ vec = "ok" /\ add = "ok"
    IN  /\ clock < MaxClock
        /\ clock' = clock + 1
        /\ UNCHANGED <<ledger, reconciliation, scheduling>>
        /\ UNCHANGED documents
        /\ document_metadata' =
               IF has_metadata
               THEN metadata_after_update(document_metadata, doc_id, metadata,
                                          DOMAIN metadata)
               ELSE document_metadata
        /\ chroma' = IF has_content /\ vec = "ok"
                     THEN IF add = "ok"
                          THEN collection_add(deleted, doc_id, content, written)
                          ELSE deleted
                     ELSE chroma
        /\ last' = [NoCall EXCEPT
                      !.op = "update", !.id = doc_id,
                      !.has_content = has_content, !.content = content,
                      !.has_metadata = has_metadata, !.metadata = metadata,
                      !.result = TRUE,
                      !.source = IF has_content /\ vec = "ok"
                                 THEN current_doc.source ELSE "none",
                      !.sqlite = IF has_metadata /\ DOMAIN metadata # {}
                                 THEN "error" ELSE "unreached",
                      !.vector = IF ~has_content THEN "unreached"
                                 ELSE IF reinserted /\ doc_id \notin DOMAIN deleted
                                      THEN "ok" ELSE "failed"]

\* an Update that names a content, a metadata delta, or both
Update ==
    \E doc_id \in DocIds, has_content \in BOOLEAN, has_metadata \in BOOLEAN,
       content \in UpdateContents, metadata \in Deltas,
       vec \in VectorOutcomes, sq \in SqliteOutcomes,
       get \in {"ok", "raise"}, del \in {"ok", "raise"}, add \in {"ok", "raise"} :
        /\ has_content \/ has_metadata
        /\ ~has_content => (content = EmptyText /\ vec = "ok" /\ sq = "ok"
                              /\ get = "ok" /\ del = "ok" /\ add = "ok")
        /\ ~has_metadata => metadata = [author |-> "bob"]
        \* each outcome is chosen only where the call it belongs to is made
        /\ (has_content /\ vec # "ok") =>
               (sq = "ok" /\ get = "ok" /\ del = "ok" /\ add = "ok")
        /\ (sq = "ok" /\ doc_id \in DOMAIN documents) => get = "ok"
        /\ update_document(doc_id, has_content,
                           IF has_content THEN content ELSE "",
                           has_metadata,
                           IF has_metadata THEN metadata ELSE EmptyDict,
                           vec, sq, get, del, add)

(***************************************************************************)
(* DocumentManager.delete_document                                         *)
(***************************************************************************)
\* a mutation of delete_result: both deletions are required
delete_result_both(success_count) == success_count > 1

\* what delete_document returns
delete_result(success_count) == success_count > 0

delete_document(doc_id, sq, vec) ==
    LET sqlite_success == sqlite_delete_document(documents, doc_id, sq)
        success_count  == (IF sqlite_success.ok THEN 1 ELSE 0)
                          + (IF vec = "ok" THEN 1 ELSE 0)
    IN  /\ clock < MaxClock
        /\ clock' = clock + 1
        /\ UNCHANGED <<ledger, reconciliation, scheduling>>
        /\ documents' = sqlite_success.docs
        /\ UNCHANGED document_metadata
        /\ chroma' = IF vec = "ok" THEN collection_delete(chroma, doc_id) ELSE chroma
        /\ last' = [NoCall EXCEPT
                      !.op = "delete", !.id = doc_id,
                      !.result = delete_result(success_count),
                      !.sqlite = IF sqlite_success.ok THEN "ok" ELSE "error",
                      !.vector = IF vec = "ok" THEN "ok" ELSE "failed"]

Delete ==
    \E doc_id \in DocIds, sq \in SqliteOutcomes, vec \in VectorOutcomes :
        delete_document(doc_id, sq, vec)

(***************************************************************************)
(* DatabaseAdminManager.repair_sync_issues                                 *)
(***************************************************************************)
\* the ChromaDB collection after the loop over missing_in_chroma
RepairAdd(coll, sqlite_docs, ids, failing) ==
    [i \in (DOMAIN coll) \cup (ids \ failing) |->
        IF i \in ids \ failing
        THEN collection_add(coll, i, DictGet(sqlite_docs[i], "content", ""),
                            DictWithout(sqlite_docs[i], "content"))[i]
        ELSE coll[i]]

\* the ChromaDB collection after the loop over missing_in_sqlite
RepairDelete(coll, ids, failing) == Remove(coll, ids \ failing)

\* a mutation of RepairSqlite: documents found only in ChromaDB are written to sqlite
RepairSqliteRestoring(docs, coll, ids, failing, now) ==
    DictMerge(docs,
        [i \in ids \ failing |->
            [filename |-> "", collection |-> "", content |-> coll[i].document,
             created_at |-> now, last_updated |-> now]])

\* the documents table after the loop over missing_in_sqlite, which calls
\* nothing but collection.delete
RepairSqlite(docs, coll, ids, failing, now) == docs

\* sq: the sqlite read; vec: get_collection(); get: collection.get();
\* failing: the ids whose collection.add / collection.delete raises
repair_sync_issues(sq, vec, get, failing) ==
    LET sqlite_docs       == sqlite_get_documents(documents, document_metadata,
                                                  DefaultLimit, sq)
        collection        == vec = "ok"
        chroma_ids        == IF collection /\ get = "ok" THEN DOMAIN chroma ELSE {}
        sqlite_ids        == DOMAIN sqlite_docs
        missing_in_chroma == sqlite_ids \ chroma_ids
        missing_in_sqlite == chroma_ids \ sqlite_ids
        errors            == IF collection
                             THEN (missing_in_chroma \cup missing_in_sqlite) \cap failing
                             ELSE {}
    IN  /\ clock < MaxClock
        /\ clock' = clock + 1
        /\ UNCHANGED <<ledger, reconciliation, scheduling>>
        /\ documents' = IF collection
                        THEN RepairSqlite(documents, chroma, missing_in_sqlite,
                                          failing, clock + 1)
                        ELSE documents
        /\ UNCHANGED document_metadata
        /\ chroma' = IF collection
                     THEN RepairDelete(RepairAdd(chroma, sqlite_docs,
                                                 missing_in_chroma, failing),
                                       missing_in_sqlite, failing)
                     ELSE chroma
        /\ last' = [NoCall EXCEPT
                      !.op = "repair",
                      !.result = (errors = {}),
                      !.sqlite = sq,
                      !.vector = IF collection /\ get = "ok" THEN "ok" ELSE "failed",
                      !.repaired_chromadb =
                          IF collection THEN Cardinality(missing_in_chroma \ failing)
                          ELSE 0,
                      !.repaired_sqlite =
                          IF collection THEN Cardinality(missing_in_sqlite \ failing)
                          ELSE 0,
                      !.errors = errors]

Repair ==
    \E sq \in SqliteOutcomes, vec \in {"ok", "none"}, get \in {"ok", "raise"},
       failing \in SUBSET DocIds :
        /\ vec = "none" => (get = "ok" /\ failing = {})
        /\ repair_sync_issues(sq, vec, get, failing)

(***************************************************************************)
(* DocumentManager.list_all_documents                                      *)
(***************************************************************************)
\* whether an exception leaves SQLiteMetadataManager.get_documents: its own
\* handler catches every one and returns the empty list
get_documents_raises(outcome) == FALSE

\* the ids ChromaDB enumerates: collection.get()['ids'], nothing when the
\* collection is unavailable or the call raises
chroma_ids(coll, vec) == IF vec = "ok" THEN DOMAIN coll ELSE {}

\* the ids list_all_documents returns (the list is kept as the set of its members)
list_all_documents_result(docs, rows, coll, sq, vec) ==
    IF ~get_documents_raises(sq)
    THEN {i \in DOMAIN sqlite_get_documents(docs, rows, DefaultLimit, sq) : i # 0}
    ELSE chroma_ids(coll, vec)

\* last.vector records how ChromaDB would answer the fallback when the
\* sqlite read fails
list_all_documents(sq, vec) ==
    /\ clock < MaxClock
    /\ clock' = clock + 1
    /\ UNCHANGED <<stores, ledger, reconciliation, scheduling>>
    /\ last' = [NoCall EXCEPT
                  !.op = "list", !.result = TRUE,
                  !.ids = list_all_documents_result(documents, document_metadata,
                                                    chroma, sq, vec),
                  !.sqlite = sq,
                  !.vector = IF sq = "ok" THEN "unreached"
                             ELSE IF vec = "ok" THEN "ok" ELSE "failed"]

ListAllIds ==
    \E sq \in SqliteOutcomes, vec \in VectorOutcomes :
        /\ sq = "ok" => vec = "ok"
        /\ list_all_documents(sq, vec)

(***************************************************************************)
(* DocumentManager.sync_databases                                          *)
(***************************************************************************)
\* the report of sync_databases, with the two id sets its counts are taken from
sync_databases_result(docs, rows, coll, sq, vec) ==
    LET sqlite_docs    == list_all_documents_result(docs, rows, coll, sq, vec)
        chroma_docs    == chroma_ids(coll, vec)
        only_in_sqlite == sqlite_docs \ chroma_docs
        only_in_chroma == chroma_docs \ sqlite_docs
    IN  [total_sqlite |-> Cardinality(sqlite_docs),
         total_chroma |-> Cardinality(chroma_docs),
         only_in_sqlite |-> Cardinality(only_in_sqlite),
         only_in_chroma |-> Cardinality(only_in_chroma),
         synchronized |-> Cardinality(sqlite_docs \cap chroma_docs),
         only_in_sqlite_ids |-> only_in_sqlite,
         only_in_chroma_ids |-> only_in_chroma]

sync_databases(sq, vec) ==
    /\ clock < MaxClock
    /\ clock' = clock + 1
    /\ UNCHANGED <<stores, ledger, reconciliation, scheduling>>
    /\ last' = [NoCall EXCEPT
                  !.op = "sync", !.result = TRUE,
                  !.report = sync_databases_result(documents, document_metadata,
                                                   chroma, sq, vec),
                  !.sqlite = sq,
                  !.vector = IF vec = "ok" THEN "ok" ELSE "failed"]

ComputeDrift ==
    \E sq \in SqliteOutcomes, vec \in VectorOutcomes : sync_databases(sq, vec)

(***************************************************************************)
(* DatabaseAdminManager._check_sync_status                                 *)
(***************************************************************************)
\* SQLiteMetadataManager.get_document_count: 0 when sqlite fails
get_document_count(docs, outcome) ==
    IF outcome = "error" THEN 0 ELSE Cardinality(DOMAIN docs)

\* collection.count(), 0 when the collection is unavailable or the call raises
collection_count(coll, vec) == IF vec = "ok" THEN Cardinality(DOMAIN coll) ELSE 0

min(a, b) == IF a < b THEN a ELSE b
abs(a) == IF a < 0 THEN 0 - a ELSE a

\* sync_percentage < 90, where sync_percentage is
\* min(sqlite_count, chroma_count) / sqlite_count * 100, and 100.0 when
\* sqlite_count is 0; the division is multiplied out
below_ninety(sqlite_count, chroma_count) ==
    /\ sqlite_count > 0
    /\ min(sqlite_count, chroma_count) * 100 < 90 * sqlite_count

\* the status is taken from the two counts alone
sync_status(sqlite_count, chroma_count) ==
    LET sync_diff == abs(sqlite_count - chroma_count)
    IN  IF sync_diff > 0
        THEN IF below_ninety(sqlite_count, chroma_count)
             THEN "out_of_sync" ELSE "minor_drift"
        ELSE "synchronized"

check_sync_status(sq, vec) ==
    LET sqlite_count == get_document_count(documents, sq)
        chroma_count == collection_count(chroma, vec)
    IN  /\ clock < MaxClock
        /\ clock' = clock + 1
        /\ UNCHANGED <<stores, ledger, reconciliation, scheduling>>
        /\ last' = [NoCall EXCEPT
                      !.op = "sync_status", !.result = TRUE,
                      !.report = [status |-> sync_status(sqlite_count, chroma_count),
                                  sqlite_documents |-> sqlite_count,
                                  chromadb_documents |-> chroma_count,
                                  sync_difference |-> abs(sqlite_count - chroma_count)],
                      !.sqlite = sq,
                      !.vector = IF vec = "ok" THEN "ok" ELSE "failed"]

CheckSyncStatus ==
    \E sq \in SqliteOutcomes, vec \in VectorOutcomes : check_sync_status(sq, vec)

(***************************************************************************)
(* DocumentManager.health_check                                            *)
(***************************************************************************)
\* whether an exception leaves VectorDBManager.list_collections: without a
\* client it returns [], and its handler turns every exception into []
list_collections_raises(vec) == FALSE

\* whether an exception leaves SQLiteMetadataManager.get_document_count: its
\* handler turns every exception into 0
get_document_count_raises(sq) == FALSE

\* a flag is set when its probe returned without raising
health_check_result(sq, vec) ==
    LET chroma_db == ~list_collections_raises(vec)
        sqlite_db == ~get_document_count_raises(sq)
    IN  [chroma_db |-> chroma_db, sqlite_db |-> sqlite_db,
         overall |-> chroma_db /\ sqlite_db]

\* last.sqlite and last.vector record how the two stores answer the probes
health_check(sq, vec) ==
    /\ clock < MaxClock
    /\ clock' = clock + 1
    /\ UNCHANGED <<stores, ledger, reconciliation, scheduling>>
    /\ last' = [NoCall EXCEPT
                  !.op = "health", !.result = TRUE,
                  !.report = health_check_result(sq, vec),
                  !.sqlite = sq,
                  !.vector = IF vec = "ok" THEN "ok" ELSE "failed"]

HealthCheck ==
    \E sq \in SqliteOutcomes, vec \in VectorOutcomes : health_check(sq, vec)

Next ==
    \/ Add
    \/ Get
    \/ Update
    \/ Delete
    \/ Repair

Spec == Init /\ [][Next]_vars

(***************************************************************************)
(* A service that has been in use: every document id has gone through one  *)
(* of these histories of coordinator calls before the behaviour starts.    *)
(*   "absent"  never added                                                 *)
(*   "both"    add_document, both writes done                              *)
(*   "sqlite"  add_document, the ChromaDB write failed                     *)
(*   "chroma"  add_document, then delete_document whose ChromaDB delete    *)
(*             failed: the projection and the metadata rows stay behind    *)
(***************************************************************************)
Histories == {"absent", "both", "sqlite", "chroma"}

\* the stores after document i went through history `how`, at time 0
SeedOne(s, i, how) ==
    LET written == sqlite_add_document(s.docs, s.rows,
                       DictMerge([id |-> i, content |-> TextOne], NestedMeta), 0, "ok")
        added   == collection_add(s.coll, i, TextOne, NestedMeta)
    IN  CASE how = "absent" -> s
          [] how = "both"   -> [docs |-> written.docs, rows |-> written.rows, coll |-> added]
          [] how = "sqlite" -> [docs |-> written.docs, rows |-> written.rows, coll |-> s.coll]
          [] how = "chroma" -> [docs |-> sqlite_delete_document(written.docs, i, "ok").docs,
                                rows |-> written.rows, coll |-> added]

\* the stores after the documents 1..n went through their histories h[1..n]
RECURSIVE Seeded(_, _)
Seeded(h, n) ==
    IF n = 0 THEN [docs |-> EmptyDict, rows |-> EmptyDict, coll |-> EmptyDict]
    ELSE SeedOne(Seeded(h, n - 1), n, h[n])

SeededInit ==
    /\ \E h \in [DocIds -> Histories] :
          /\ documents = Seeded(h, NumDocs).docs
          /\ document_metadata = Seeded(h, NumDocs).rows
          /\ chroma = Seeded(h, NumDocs).coll
    /\ clock = 0
    /\ last = NoCall
    /\ file_hashes = {}
    /\ saving = [s \in Savers |-> IdleSaver]
    /\ newly_saved = [t \in Triples |-> 0]
    /\ checked = NoCheck
    /\ jobs = EmptyDict
    /\ stats = EmptyDict
    /\ settings = DefaultSettings
    /\ scheduler = [running |-> FALSE, stop_event |-> 0, scheduler_thread |-> 0, join |-> 0]
    /\ events = EmptyDict
    /\ threads = EmptyDict
    /\ schedule_jobs = EmptyDict
    /\ trigger_day = 0
    /\ fires = << >>
    /\ running = EmptyDict

SeededNext ==
    \/ Add
    \/ Repair
    \/ ListAllIds
    \/ ComputeDrift
    \/ CheckSyncStatus
    \/ HealthCheck

SeededSpec == SeededInit /\ [][SeededNext]_vars

(***************************************************************************)
(* FileHashManager: the hash ledger                                        *)
(***************************************************************************)
\* the file name every save is called with
FileName == "report.pdf"

\* SELECT ... WHERE file_hash = ? AND client_id = ? AND original_path = ?
rows_exact(rows, h, c, p) ==
    {r \in rows : r.file_hash = h /\ r.client_id = c /\ r.original_path = p}

\* SELECT ... WHERE file_hash = ?
rows_hash(rows, h) == {r \in rows : r.file_hash = h}

\* a mutation of check_duplicate_result: the hash is looked up before the triple
check_duplicate_content_first(rows, h, c, p, outcome) ==
    IF outcome = "error" \/ rows_hash(rows, h) = {}
    THEN [is_duplicate |-> FALSE, document_id |-> 0, is_path_duplicate |-> FALSE]
    ELSE [is_duplicate |-> TRUE,
          document_id |-> (CHOOSE r \in rows_hash(rows, h) : TRUE).document_id,
          is_path_duplicate |-> FALSE]

\* FileHashManager.check_duplicate: (is_duplicate, document_id, is_path_duplicate),
\* document_id 0 for None; an sqlite error is answered (False, None, False)
check_duplicate_result(rows, h, c, p, outcome) ==
    IF outcome = "error"
    THEN [is_duplicate |-> FALSE, document_id |-> 0, is_path_duplicate |-> FALSE]
    ELSE IF rows_exact(rows, h, c, p) # {}
    THEN [is_duplicate |-> TRUE,
          document_id |-> (CHOOSE r \in rows_exact(rows, h, c, p) : TRUE).document_id,
          is_path_duplicate |-> TRUE]
    ELSE IF rows_hash(rows, h) # {}
    THEN [is_duplicate |-> TRUE,
          document_id |-> (CHOOSE r \in rows_hash(rows, h) : TRUE).document_id,
          is_path_duplicate |-> FALSE]
    ELSE [is_duplicate |-> FALSE, document_id |-> 0, is_path_duplicate |-> FALSE]

check_duplicate(h, c, p, outcome) ==
    LET r == check_duplicate_result(file_hashes, h, c, p, outcome)
    IN  /\ clock < MaxClock
        /\ clock' = clock + 1
        /\ checked' = [file_hash |-> h, client_id |-> c, original_path |-> p,
                       raised |-> IF outcome = "error" THEN "sqlite3.OperationalError"
                                  ELSE "none",
                       is_duplicate |-> r.is_duplicate, document_id |-> r.document_id,
                       is_path_duplicate |-> r.is_path_duplicate, at |-> clock + 1]
        /\ UNCHANGED <<stores, last, file_hashes, saving, newly_saved, reconciliation, scheduling>>

CheckDuplicate ==
    \E h \in Hashes, c \in Clients, p \in Paths, outcome \in SqliteOutcomes :
        check_duplicate(h, c, p, outcome)

\* INSERT INTO file_hashes: file_hash is the PRIMARY KEY of the table, a second
\* row with a hash the table holds raises sqlite3.IntegrityError
insert_file_hash(rows, row) ==
    IF \E r \in rows : r.file_hash = row.file_hash
    THEN [raised |-> "sqlite3.IntegrityError", rows |-> rows]
    ELSE [raised |-> "none", rows |-> rows \cup {row}]

\* save_file_hash up to its SELECT: the call ends here with False when sqlite
\* fails or the triple is in the table, and goes on to the INSERT otherwise
save_file_hash_select(s, h, d, c, p, outcome) ==
    LET call == [IdleSaver EXCEPT !.file_hash = h, !.document_id = d,
                                  !.client_id = c, !.original_path = p]
    IN  /\ saving[s].pc = "idle"
        /\ clock < MaxClock
        /\ clock' = clock + 1
        /\ saving' = [saving EXCEPT ![s] =
               IF outcome = "error"
               THEN [call EXCEPT !.raised = "sqlite3.OperationalError"]
               ELSE IF rows_exact(file_hashes, h, c, p) # {} THEN call
               ELSE [call EXCEPT !.pc = "selected"]]
        /\ UNCHANGED <<stores, last, file_hashes, newly_saved, checked, reconciliation, scheduling>>

SaveSelect ==
    \E s \in Savers, h \in Hashes, d \in DocIds, c \in Clients, p \in Paths,
       outcome \in SqliteOutcomes :
        save_file_hash_select(s, h, d, c, p, outcome)

\* save_file_hash from its INSERT on: INSERT and commit, True; every exception
\* is caught and answered False
save_file_hash_insert(s, outcome) ==
    LET call     == saving[s]
        row      == [file_hash |-> call.file_hash, file_name |-> FileName,
                     document_id |-> call.document_id, file_path |-> FileName,
                     client_id |-> call.client_id, original_path |-> call.original_path]
        inserted == insert_file_hash(file_hashes, row)
        raised   == IF outcome = "error" THEN "sqlite3.OperationalError"
                    ELSE inserted.raised
        triple   == <<call.file_hash, call.client_id, call.original_path>>
    IN  /\ call.pc = "selected"
        /\ file_hashes' = IF raised = "none" THEN inserted.rows ELSE file_hashes
        /\ saving' = [saving EXCEPT ![s] =
               [call EXCEPT !.pc = "idle", !.result = (raised = "none"),
                            !.raised = raised]]
        /\ newly_saved' = IF raised = "none"
                          THEN [newly_saved EXCEPT ![triple] = @ + 1]
                          ELSE newly_saved
        /\ UNCHANGED <<stores, clock, last, checked, reconciliation, scheduling>>

SaveInsert ==
    \E s \in Savers, outcome \in SqliteOutcomes : save_file_hash_insert(s, outcome)

LedgerNext ==
    \/ SaveSelect
    \/ SaveInsert
    \/ CheckDuplicate

LedgerSpec == Init /\ [][LedgerNext]_vars

(***************************************************************************)
(* Database (app/db/database.py): reconciliation_jobs and stats            *)
(***************************************************************************)
\* NULL in an integer or timestamp column
Null == 0 - 1

\* Database.create_job: the row INSERT writes; total_files and end_time stay NULL
create_job(rows, delete_missing, batch_size, now) ==
    LET job_id == Cardinality(DOMAIN rows) + 1
    IN  [job_id |-> job_id,
         rows |-> DictMerge(rows, [i \in {job_id} |->
                     [status |-> "running", start_time |-> now, end_time |-> Null,
                      total_files |-> Null, processed_files |-> 0, added_files |-> 0,
                      updated_files |-> 0, removed_files |-> 0, errors |-> 0,
                      delete_missing |-> delete_missing, batch_size |-> batch_size,
                      error_message |-> ""]])]

\* Database.update_job: one UPDATE of the columns named in `values`; an sqlite
\* error is logged, the row stays as it is and False is returned
update_job(rows, job_id, values, outcome) ==
    IF outcome = "error" \/ job_id \notin DOMAIN rows THEN rows
    ELSE [rows EXCEPT ![job_id] = DictMerge(@, values)]

\* a mutation of update_stats_raises: an sqlite error leaves update_stats
update_stats_raises_on_error(outcome) == outcome = "error"

\* whether an exception leaves Database.update_stats: its handler catches
\* every one and returns False
update_stats_raises(outcome) == FALSE

\* Database.update_stats: INSERT OR REPLACE of the key
update_stats(table, values, outcome) ==
    IF outcome = "error" THEN table ELSE DictMerge(table, values)

(***************************************************************************)
(* ReconciliationService                                                   *)
(***************************************************************************)
\* _get_monitored_directories: the two directories written in the code
monitored_dirs == {"C:/Documenti", "C:/Progetti"}

\* a behaviour starts at most MaxJobs jobs
MaxJobs == 1

\* the paths of the files under the monitored directories are 1..MaxFiles
MaxFiles == 2
FilePaths == 1..MaxFiles

\* batch sizes a job is started with: one file per batch, the default
BatchSizes == {1, 1000}

\* a task that has not read anything yet
NewTask(delete_missing, batch_size) ==
    [pc |-> "start", files |-> {}, held |-> {}, changed |-> {}, unread |-> FALSE,
     processed |-> {}, added |-> 0, updated |-> 0, removed |-> 0, errors |-> 0,
     delete_missing |-> delete_missing, batch_size |-> batch_size, error_msg |-> ""]

\* start_reconciliation: create_job, then the task is handed to the event
\* loop; an exception of create_job leaves the call and no job exists
start_reconciliation(delete_missing, batch_size, outcome) ==
    LET created == create_job(jobs, delete_missing, batch_size, clock + 1)
    IN  /\ clock' = clock + 1
        /\ IF outcome = "error"
           THEN UNCHANGED <<jobs, running>>
           ELSE /\ jobs' = created.rows
                /\ running' = DictMerge(running, [i \in {created.job_id} |->
                                 NewTask(delete_missing, batch_size)])
        /\ UNCHANGED <<stores, last, ledger, stats>>

StartReconciliation ==
    \E delete_missing \in BOOLEAN, batch_size \in BatchSizes, outcome \in SqliteOutcomes :
        /\ clock < MaxClock
        /\ Cardinality(DOMAIN jobs) < MaxJobs
        /\ start_reconciliation(delete_missing, batch_size, outcome)
        /\ UNCHANGED scheduling

\* _scan_filesystem: a directory that does not exist is skipped with a
\* warning, os.walk passes over what it cannot list, a file that cannot be
\* read is left out; the files found are those of the directories read
scan_result(readable, files) == IF readable = {} THEN {} ELSE files

\* _run_reconciliation up to the first update_job: the directories, the walk
\* (or an exception that leaves it), total_files.  `held` are the paths the
\* vector store holds a document for while the job runs, `changed` those of
\* them whose file has another hash than the document records
scan_filesystem(job_id, readable, files, held, changed, raises, outcome) ==
    LET files_info == scan_result(readable, files)
    IN  /\ job_id \in DOMAIN running
        /\ running[job_id].pc = "start"
        /\ IF monitored_dirs = {}
           THEN /\ jobs' = update_job(jobs, job_id,
                               [status |-> "failed", end_time |-> clock,
                                error_message |-> "Nessuna directory monitorata trovata"],
                               outcome)
                /\ running' = [running EXCEPT ![job_id].pc = "done"]
           ELSE IF raises
           THEN /\ running' = [running EXCEPT ![job_id].pc = "except",
                                              ![job_id].error_msg =
                                                  "Errore durante la riconciliazione"]
                /\ UNCHANGED jobs
           ELSE /\ jobs' = update_job(jobs, job_id,
                               [total_files |-> Cardinality(files_info)], outcome)
                /\ running' = [running EXCEPT ![job_id].pc = "reconcile",
                                              ![job_id].files = files_info,
                                              ![job_id].held = held,
                                              ![job_id].changed = changed,
                                              ![job_id].unread = (readable # monitored_dirs)]
        /\ UNCHANGED <<stores, clock, last, ledger, stats, scheduling>>

ScanFilesystem ==
    \E job_id \in DOMAIN running, readable \in SUBSET monitored_dirs,
       files \in SUBSET FilePaths, held \in SUBSET FilePaths,
       changed \in SUBSET FilePaths, raises \in BOOLEAN, outcome \in SqliteOutcomes :
        /\ changed \subseteq scan_result(readable, files) \cap held
        /\ readable = {} => files = {}
        /\ raises => (files = {} /\ held = {} /\ outcome = "ok")
        /\ scan_filesystem(job_id, readable, files, held, changed, raises, outcome)

\* a mutation of get_all_vectorstore_documents: the documents are fetched
get_all_vectorstore_documents_fetched(held) == held

\* _get_all_vectorstore_documents: the code returns the empty list whatever
\* the vector store holds
get_all_vectorstore_documents(held) == {}

\* the three sets _reconcile_vectorstore works through
paths_to_add(filesystem_paths, vectorstore_paths) ==
    filesystem_paths \ vectorstore_paths
paths_to_check(filesystem_paths, vectorstore_paths) ==
    filesystem_paths \cap vectorstore_paths
paths_to_remove(filesystem_paths, vectorstore_paths) ==
    vectorstore_paths \ filesystem_paths

\* list(paths)[i:i+batch_size]: the next batch_size paths of a set
next_batch(paths, batch_size) ==
    {p \in paths : Cardinality({q \in paths : q < p}) < batch_size}

\* _reconcile_vectorstore, one batch: the paths to add, then those to check,
\* then (with delete_missing) those to remove, batch_size at a time, the job
\* row updated after each batch.  `raises`: an exception inside the function,
\* which its handler turns into one more error and the end of the loops
reconcile_batch(job_id, raises, outcome) ==
    LET task      == running[job_id]
        vs_paths  == get_all_vectorstore_documents(task.held)
        to_add    == paths_to_add(task.files, vs_paths) \ task.processed
        to_check  == paths_to_check(task.files, vs_paths) \ task.processed
        to_remove == IF task.delete_missing
                     THEN paths_to_remove(task.files, vs_paths) \ task.processed
                     ELSE {}
        batch     == IF to_add # {} THEN next_batch(to_add, task.batch_size)
                     ELSE IF to_check # {} THEN next_batch(to_check, task.batch_size)
                     ELSE next_batch(to_remove, task.batch_size)
        added     == task.added + (IF to_add # {} THEN Cardinality(batch) ELSE 0)
        updated   == task.updated
                       + (IF to_add = {} /\ to_check # {}
                          THEN Cardinality(batch \cap task.changed) ELSE 0)
        removed   == task.removed
                       + (IF to_add = {} /\ to_check = {} THEN Cardinality(batch) ELSE 0)
    IN  /\ job_id \in DOMAIN running
        /\ task.pc = "reconcile"
        /\ IF raises
           THEN /\ running' = [running EXCEPT ![job_id].pc = "complete",
                                              ![job_id].errors = @ + 1]
                /\ UNCHANGED jobs
           ELSE IF batch = {}
           THEN /\ running' = [running EXCEPT ![job_id].pc = "complete"]
                /\ UNCHANGED jobs
           ELSE /\ running' = [running EXCEPT ![job_id].processed = @ \cup batch,
                                              ![job_id].added = added,
                                              ![job_id].updated = updated,
                                              ![job_id].removed = removed]
                /\ jobs' = update_job(jobs, job_id,
                               [processed_files |-> Cardinality(task.processed \cup batch),
                                added_files |-> added, updated_files |-> updated,
                                removed_files |-> removed, errors |-> task.errors],
                               outcome)
        /\ UNCHANGED <<stores, clock, last, ledger, stats, scheduling>>

ReconcileBatch ==
    \E job_id \in DOMAIN running, raises \in BOOLEAN, outcome \in SqliteOutcomes :
        /\ raises => outcome = "ok"
        /\ reconcile_batch(job_id, raises, outcome)

\* the columns the update_job that ends a job as completed writes
completion_values(task, now) ==
    [status |-> "completed", end_time |-> now,
     processed_files |-> Cardinality(task.files), added_files |-> task.added,
     updated_files |-> task.updated, removed_files |-> task.removed,
     errors |-> task.errors]

\* the update_job that ends a job as completed
complete_job(job_id, outcome) ==
    /\ job_id \in DOMAIN running
    /\ running[job_id].pc = "complete"
    /\ jobs' = update_job(jobs, job_id, completion_values(running[job_id], clock), outcome)
    /\ running' = [running EXCEPT ![job_id].pc = "stats"]
    /\ UNCHANGED <<stores, clock, last, ledger, stats, scheduling>>

CompleteJob ==
    \E job_id \in DOMAIN running, outcome \in SqliteOutcomes :
        complete_job(job_id, outcome)

\* the four update_stats calls that follow the completion
update_global_stats(job_id, outcome) ==
    LET task == running[job_id]
    IN  /\ job_id \in DOMAIN running
        /\ task.pc = "stats"
        /\ stats' = update_stats(stats,
                        [last_reconciliation |-> clock,
                         last_reconciliation_duration |-> clock - jobs[job_id].start_time,
                         last_reconciliation_files |-> Cardinality(task.files),
                         total_documents |-> Cardinality(task.files)],
                        outcome)
        /\ running' = [running EXCEPT ![job_id].pc =
                          IF update_stats_raises(outcome) THEN "except" ELSE "done",
                                      ![job_id].error_msg =
                          IF update_stats_raises(outcome)
                          THEN "Errore durante la riconciliazione" ELSE @]
        /\ UNCHANGED <<stores, clock, last, ledger, jobs, scheduling>>

UpdateStats ==
    \E job_id \in DOMAIN running, outcome \in SqliteOutcomes :
        update_global_stats(job_id, outcome)

\* the handler of _run_reconciliation: the update_job that ends a job as failed
fail_job(job_id, outcome) ==
    /\ job_id \in DOMAIN running
    /\ running[job_id].pc = "except"
    /\ jobs' = update_job(jobs, job_id,
                   [status |-> "failed", end_time |-> clock,
                    error_message |-> running[job_id].error_msg],
                   outcome)
    /\ running' = [running EXCEPT ![job_id].pc = "done"]
    /\ UNCHANGED <<stores, clock, last, ledger, stats, scheduling>>

FailJob ==
    \E job_id \in DOMAIN running, outcome \in SqliteOutcomes : fail_job(job_id, outcome)

JobNext ==
    \/ StartReconciliation
    \/ ScanFilesystem
    \/ ReconcileBatch
    \/ CompleteJob
    \/ UpdateStats
    \/ FailJob

JobSpec == Init /\ [][JobNext]_vars

(***************************************************************************)
(* Cancel: DELETE /reconciliation/{job_id}                                 *)
(***************************************************************************)
\* ReconciliationManager.cancel_reconciliation_job: accepted while the job is
\* running, which it ends as cancelled; refused for an unknown job and for a
\* job that has ended
cancel_reconciliation_job(rows, job_id, now) ==
    IF job_id \in DOMAIN rows /\ rows[job_id].status = "running"
    THEN [success |-> TRUE,
          rows |-> [rows EXCEPT ![job_id] =
                       DictMerge(@, [status |-> "cancelled", end_time |-> now])]]
    ELSE [success |-> FALSE, rows |-> rows]

\* the route: 204 when the manager accepted, 404 when it refused
cancel_route(job_id) ==
    LET cancelled == cancel_reconciliation_job(jobs, job_id, clock)
    IN  /\ jobs' = cancelled.rows
        /\ last' = [NoCall EXCEPT !.op = "cancel", !.id = job_id,
                                  !.result = cancelled.success]
        /\ UNCHANGED <<stores, clock, ledger, running, stats, scheduling>>

CancelJob == \E job_id \in 1..MaxJobs : cancel_route(job_id)

CancelNext == JobNext \/ CancelJob

CancelSpec == Init /\ [][CancelNext]_vars

(***************************************************************************)
(* get_next_scheduled_run (app/services/reconciliation.py)                 *)
(***************************************************************************)
\* the schedule_time strings of the model; "03:00" is the default setting,
\* "" is a string map(int, ...) does not parse
ScheduleTimes == {"00:00", "02:30", "03:00", "23:59", ""}

\* hour, minute = map(int, schedule_time.split(":")), <<3, 0>> when that raises
parse_schedule_time(schedule_time) ==
    CASE schedule_time = "00:00" -> <<0, 0>>
      [] schedule_time = "02:30" -> <<2, 30>>
      [] schedule_time = "03:00" -> <<3, 0>>
      [] schedule_time = "23:59" -> <<23, 59>>
      [] OTHER                   -> <<3, 0>>

\* the instants datetime.now() returns in the model, on day 0
NowHours   == {0, 2, 3, 4, 23}
NowMinutes == {0, 30, 59}
NowSeconds == {0, 30}
Instants ==
    [day : {0}, hour : NowHours, minute : NowMinutes, second : NowSeconds]

\* a >= b on datetime values
datetime_ge(a, b) ==
    \/ a.day > b.day
    \/ a.day = b.day /\ a.hour > b.hour
    \/ a.day = b.day /\ a.hour = b.hour /\ a.minute > b.minute
    \/ a.day = b.day /\ a.hour = b.hour /\ a.minute = b.minute /\ a.second >= b.second

\* a mutation of already_passed: a schedule at this very instant is not passed
already_passed_strictly(now, scheduled_time) ==
    datetime_ge(now, scheduled_time) /\ now # scheduled_time

\* `if now >= scheduled_time`
already_passed(now, scheduled_time) == datetime_ge(now, scheduled_time)

get_next_scheduled_run(now, schedule_time) ==
    LET hm             == parse_schedule_time(schedule_time)
        scheduled_time == [now EXCEPT !.hour = hm[1], !.minute = hm[2], !.second = 0]
    IN  IF already_passed(now, scheduled_time)
        THEN [scheduled_time EXCEPT !.day = @ + 1]
        ELSE scheduled_time

\* GET /status with the schedule enabled
next_run_call(now, schedule_time) ==
    /\ clock < MaxClock
    /\ clock' = clock + 1
    /\ last' = [NoCall EXCEPT
                  !.op = "next_run", !.result = TRUE,
                  !.report = [now |-> now, schedule_time |-> schedule_time,
                              next_run |-> get_next_scheduled_run(now, schedule_time)]]
    /\ UNCHANGED <<stores, ledger, reconciliation, scheduling>>

NextRun == \E now \in Instants, schedule_time \in ScheduleTimes :
               next_run_call(now, schedule_time)

NextRunSpec == Init /\ [][NextRun]_vars

(***************************************************************************)
(* Database: writing and reading the settings                             *)
(***************************************************************************)
\* the values a setting is given
SettingValues ==
    [delete_missing |-> {"true", "false"}, batch_size |-> {"1", "1000"}]

\* Database.set_setting: INSERT OR REPLACE, False on an sqlite error
set_setting(key, value, outcome) ==
    /\ settings' = IF outcome = "error" THEN settings
                   ELSE [settings EXCEPT ![key] = value]
    /\ UNCHANGED <<stores, clock, last, ledger, reconciliation, scheduler, events,
                   threads, schedule_jobs, trigger_day, fires>>

SetSetting ==
    \E key \in DOMAIN SettingValues, outcome \in SqliteOutcomes :
        \E value \in SettingValues[key] : set_setting(key, value, outcome)

\* Database.get_all_settings: the table, the empty dictionary on an sqlite error
get_all_settings(table, outcome) == IF outcome = "error" THEN EmptyDict ELSE table

\* dict.get(key, default)
dict_get(d, key, default) == IF key \in DOMAIN d THEN d[key] ELSE default

\* int(s) for the batch sizes of the model
int(s) == CASE s = "1" -> 1 [] OTHER -> 1000

(***************************************************************************)
(* ReconciliationScheduler (app/scheduler/scheduler.py)                    *)
(*                                                                         *)
(* `scheduler` holds the fields of the singleton and, in `join`, the       *)
(* thread a stop() call in progress is waiting for (0: no stop() is in     *)
(* progress).  `events` are the threading.Event objects ever created,      *)
(* `threads` the scheduler threads ever started, `schedule_jobs` the job    *)
(* list of the `schedule` module, which is global: job -> next_run.  Time   *)
(* is counted in trigger instants: `trigger_day` is the last that passed.   *)
(***************************************************************************)
MaxThreads == 2
MaxDays == 2

\* get_settings().schedule_enabled, the default of the configuration
schedule_enabled == TRUE

\* start(): nothing while running; else a new Event, a new thread, running
start ==
    LET e == Cardinality(DOMAIN events) + 1
        t == Cardinality(DOMAIN threads) + 1
    IN  /\ scheduler.join = 0
        /\ IF scheduler.running
           THEN UNCHANGED <<scheduler, events, threads>>
           ELSE /\ t <= MaxThreads
                /\ events' = DictMerge(events, [i \in {e} |-> FALSE])
                /\ threads' = DictMerge(threads, [i \in {t} |->
                                 [pc |-> "configure", job |-> 0, stopped |-> FALSE]])
                /\ scheduler' = [scheduler EXCEPT !.running = TRUE, !.stop_event = e,
                                                  !.scheduler_thread = t]
        /\ UNCHANGED <<stores, clock, last, ledger, reconciliation, settings,
                       schedule_jobs, trigger_day, fires>>

\* stop() up to its join: nothing when not running; else the event is set
stop_set ==
    /\ scheduler.join = 0
    /\ IF ~scheduler.running
       THEN UNCHANGED <<scheduler, events>>
       ELSE /\ events' = [events EXCEPT ![scheduler.stop_event] = TRUE]
            /\ scheduler' = [scheduler EXCEPT !.join = scheduler.scheduler_thread]
    /\ UNCHANGED <<stores, clock, last, ledger, reconciliation, settings, threads,
                   schedule_jobs, trigger_day, fires>>

\* whether join(timeout=5) may give up on a thread: one that is inside a
\* fire, which lasts as long as the reconciliation it runs
join_times_out(thread, timed_out) == timed_out /\ thread.pc = "in_job"

\* stop() from its join on: the join returns when the thread has ended or
\* after 5 seconds; then running is cleared and schedule.clear() is called
stop_join(timed_out) ==
    LET t == scheduler.join
    IN  /\ t # 0
        /\ threads[t].pc = "dead" \/ join_times_out(threads[t], timed_out)
        /\ scheduler' = [scheduler EXCEPT !.running = FALSE, !.join = 0]
        /\ schedule_jobs' = EmptyDict
        /\ threads' = [threads EXCEPT ![t].stopped = TRUE]
        /\ UNCHANGED <<stores, clock, last, ledger, reconciliation, settings, events,
                       trigger_day, fires>>

StopJoin == \E timed_out \in BOOLEAN : stop_join(timed_out)

\* _configure_schedules: schedule.clear(), then the daily job, due at the
\* next trigger instant
configure_schedules(t) ==
    /\ threads[t].pc = "configure"
    /\ schedule_jobs' = IF schedule_enabled THEN [j \in {t} |-> trigger_day + 1] ELSE EmptyDict
    /\ threads' = [threads EXCEPT ![t].pc = "loop"]
    /\ UNCHANGED <<stores, clock, last, ledger, reconciliation, settings, scheduler,
                   events, trigger_day, fires>>

ConfigureSchedules == \E t \in DOMAIN threads : configure_schedules(t)

\* the event the loop of _run_scheduler tests: self.stop_event, read anew at
\* every turn
loop_stop_event(t) == scheduler.stop_event

\* `while not self.stop_event.is_set()` finds the event set: the thread ends
exit_loop(t) ==
    /\ threads[t].pc = "loop"
    /\ events[loop_stop_event(t)]
    /\ threads' = [threads EXCEPT ![t].pc = "dead"]
    /\ UNCHANGED <<stores, clock, last, ledger, reconciliation, settings, scheduler,
                   events, schedule_jobs, trigger_day, fires>>

ExitLoop == \E t \in DOMAIN threads : exit_loop(t)

\* one turn of the loop with a job due: schedule.run_pending() calls
\* _run_reconciliation_job, which reads the settings and calls
\* start_reconciliation; the thread stays inside the job while it runs
run_pending(t, j, read, outcome) ==
    LET read_settings  == get_all_settings(settings, read)
        delete_missing ==
            lower(dict_get(read_settings, "delete_missing", "true")) = "true"
        batch_size     == int(dict_get(read_settings, "batch_size", "1000"))
    IN  /\ threads[t].pc = "loop"
        /\ ~events[loop_stop_event(t)]
        /\ j \in DOMAIN schedule_jobs /\ schedule_jobs[j] <= trigger_day
        /\ clock < MaxClock
        /\ start_reconciliation(delete_missing, batch_size, outcome)
        /\ fires' = Append(fires, [thread |-> t, stopped |-> threads[t].stopped,
                                   due |-> trigger_day, read |-> read, persisted |-> settings,
                                   delete_missing |-> delete_missing,
                                   batch_size |-> batch_size])
        /\ threads' = [threads EXCEPT ![t].pc = "in_job", ![t].job = j]
        /\ UNCHANGED <<settings, scheduler, events, schedule_jobs, trigger_day>>

RunPending ==
    \E t \in DOMAIN threads, j \in DOMAIN schedule_jobs,
       read \in SqliteOutcomes, outcome \in SqliteOutcomes :
        run_pending(t, j, read, outcome)

\* Job.run after the job function returned: last_run, _schedule_next_run
job_returns(t) ==
    LET j == threads[t].job
    IN  /\ threads[t].pc = "in_job"
        /\ schedule_jobs' = IF j \in DOMAIN schedule_jobs
                            THEN [schedule_jobs EXCEPT ![j] = trigger_day + 1]
                            ELSE schedule_jobs
        /\ threads' = [threads EXCEPT ![t].pc = "loop", ![t].job = 0]
        /\ UNCHANGED <<stores, clock, last, ledger, reconciliation, settings, scheduler,
                       events, trigger_day, fires>>

JobReturns == \E t \in DOMAIN threads : job_returns(t)

\* the next trigger instant passes
AdvanceTime ==
    /\ trigger_day < MaxDays
    /\ trigger_day' = trigger_day + 1
    /\ UNCHANGED <<stores, clock, last, ledger, reconciliation, settings, scheduler,
                   events, threads, schedule_jobs, fires>>

SchedulerNext ==
    \/ start
    \/ stop_set
    \/ StopJoin
    \/ ConfigureSchedules
    \/ ExitLoop
    \/ RunPending
    \/ JobReturns
    \/ AdvanceTime
    \/ SetSetting

SchedulerSpec == Init /\ [][SchedulerNext]_vars

(***************************************************************************)
(* What a caller observes                                                  *)
(***************************************************************************)
\* Get(doc_id) with both stores answering
Lookup(docs, rows, coll, doc_id) ==
    get_document_result(docs, rows, coll, doc_id, "ok", "ok")

\* VectorizationEligibility of the document Get returns: its content against
\* the rest of its fields
Eligible(doc) ==
    should_vectorize_content(DictGet(doc, "content", ""), DictWithout(doc, "content"))

\* the relational metadata of doc_id and the metadata of its vector projection
RelationalMetadata(docs, rows, doc_id) ==
    IF doc_id \in DOMAIN docs THEN RowsToDict(rows, doc_id) ELSE EmptyDict
VectorMetadata(coll, doc_id) ==
    IF doc_id \in DOMAIN coll THEN coll[doc_id].metadata ELSE EmptyDict

\* metadata holds key k with value v, at the top level or inside its nested
\* 'metadata' dictionary
Holds(metadata, k, v) ==
    \/ k \in DOMAIN metadata /\ metadata[k] = v
    \/ /\ "metadata" \in DOMAIN metadata
       /\ k \in DOMAIN metadata["metadata"]
       /\ metadata["metadata"][k] = v

(***************************************************************************)
(* C1..C10: the coordinator and the repair engine                          *)
(***************************************************************************)

C2_IneligibleAddLeavesNoProjection ==
    (last.op = "add" /\ last.result
        /\ ~should_vectorize_content(last.content, last.metadata))
    => last.id \notin DOMAIN chroma

\* C3: every id in the vector store belongs to a document whose current
\* (content, metadata), as Get returns it, is eligible for vectorization.
C3_VectorStoreHoldsOnlyEligible ==
    \A i \in DOMAIN chroma :
        Eligible(Lookup(documents, document_metadata, chroma, i).doc)

\* C4: Delete attempts both deletions, each whatever became of the other, and
\* returns success exactly when at least one succeeded: a relational deletion
\* that succeeded removed the row, a vector deletion that succeeded removed
\* the projection.
C4_DeleteSucceedsIfEitherDoes ==
    [][last'.op = "delete" =>
          /\ last'.result = (last'.sqlite = "ok" \/ last'.vector = "ok")
          /\ (last'.sqlite = "ok") =
                (last'.id \in DOMAIN documents /\ last'.id \notin DOMAIN documents')
          /\ last'.vector = "ok" => last'.id \notin DOMAIN chroma'
          /\ last'.vector # "ok" => chroma' = chroma
          /\ \A i \in DocIds \ {last'.id} :
                (i \in DOMAIN documents') = (i \in DOMAIN documents)]_vars

\* C4 witness: the relational delete failed on a stored row, the vector delete
\* succeeded, and Delete returned success
C4_Witness ==
    /\ last.op = "delete" /\ last.result
    /\ last.sqlite = "error" /\ last.vector = "ok"
    /\ last.id \in DOMAIN documents

\* C5: Repair leaves both relational tables as they were, whatever the drift
\* and whichever repairs failed; an id found only in the vector store is gone
\* from the vector store unless its deletion failed.
C5_RepairLeavesRelationalStore ==
    [][last'.op = "repair" =>
          /\ UNCHANGED <<documents, document_metadata>>
          /\ last'.vector = "ok" =>
                \A i \in (DOMAIN chroma) \ (DOMAIN documents) :
                    i \notin last'.errors => i \notin DOMAIN chroma']_vars

\* C5 witness: a Repair that deleted an id held only by the vector store
C5_Witness ==
    /\ last.op = "repair" /\ last.sqlite = "ok" /\ last.repaired_sqlite = 1
    /\ DOMAIN chroma = {}

\* C6: after Repair the vector store holds no id whose relational document
\* is ineligible for vectorization.
C6_RepairInsertsOnlyEligible ==
    last.op = "repair" =>
        \A i \in (DOMAIN chroma) \cap (DOMAIN documents) :
            Eligible(sqlite_get_document(documents, document_metadata, i, "ok").doc)

\* C7: Get returns the relational record when the relational lookup yields
\* the id; otherwise the document rebuilt from the vector store's record
\* when the vector lookup yields it; NotFound only when neither does.
C7_GetPrefersRelational ==
    last.op = "get" =>
        LET relational == last.sqlite = "ok" /\ last.id \in DOMAIN documents
            vector     == last.vector = "ok" /\ last.id \in DOMAIN chroma
        IN  /\ relational =>
                /\ last.result
                /\ last.doc = sqlite_get_document(documents, document_metadata,
                                                  last.id, "ok").doc
            /\ (~relational /\ vector) =>
                /\ last.result
                /\ last.doc = FromChroma(last.id, chroma[last.id])
            /\ (~last.result) = (~relational /\ ~vector)

\* C7 witness: a Get answered from the vector store for an id sqlite does not hold
C7_Witness ==
    /\ last.op = "get" /\ last.result
    /\ last.id \notin DOMAIN documents /\ last.id \in DOMAIN chroma

\* C8: after a successful Update of a document the relational store holds, Get
\* returns the new content when one was given and the new value of every key
\* of the metadata delta, and every other field as it was.
C8_UpdateIsVisibleToGet ==
    [][(last'.op = "update" /\ last'.result /\ last'.id \in DOMAIN documents) =>
          LET before == Lookup(documents, document_metadata, chroma, last'.id).doc
              after  == Lookup(documents', document_metadata', chroma', last'.id).doc
              delta  == IF last'.has_metadata THEN last'.metadata ELSE EmptyDict
          IN  /\ last'.has_content => after.content = last'.content
              /\ \A k \in DOMAIN delta : Holds(after, k, delta[k])
              /\ ~last'.has_content => after.content = before.content
              /\ \A k \in (DOMAIN before.metadata) \ (DOMAIN delta) :
                    k \in DOMAIN after.metadata
                    /\ after.metadata[k] = before.metadata[k]]_vars

\* C9: after Delete returns success, Get of that id returns NotFound.
C9_DeletedIsNotFound ==
    (last.op = "delete" /\ last.result)
    => ~Lookup(documents, document_metadata, chroma, last.id).found

\* C10: when Update re-inserts the vector projection, having read the current
\* document from the store that holds it, every metadata key that the
\* relational store or the old projection held and the delta does not name is
\* in the new projection with its old value (at the top level or inside a
\* nested 'metadata' dictionary).
C10_UpdateKeepsUnnamedMetadata ==
    [][(/\ last'.op = "update" /\ last'.has_content /\ last'.vector = "ok"
        /\ last'.id \in DOMAIN documents => last'.source = "sqlite"
        /\ (last'.id \notin DOMAIN documents /\ last'.id \in DOMAIN chroma)
              => last'.source = "chroma") =>
          LET relational == RelationalMetadata(documents, document_metadata, last'.id)
              vector     == VectorMetadata(chroma, last'.id)
              delta      == IF last'.has_metadata THEN last'.metadata ELSE EmptyDict
              written    == chroma'[last'.id].metadata
          IN  \A k \in ((DOMAIN relational) \cup (DOMAIN vector)) \ (DOMAIN delta) :
                  \/ k \in DOMAIN vector /\ Holds(written, k, vector[k])
                  \/ k \in DOMAIN relational /\ Holds(written, k, relational[k])]_vars

(***************************************************************************)
(* C11..C16: idempotence, listing, drift and health                        *)
(***************************************************************************)

\* C11: when Add succeeds twice in succession with the same id, content and
\* metadata, the second call leaves the relational store as the first left it
\* except for last_updated: the same ids, and for the id the same content,
\* the same metadata key/value pairs and the same created_at.
C11_AddTwiceIsAddOnce ==
    [][(/\ last.op = "add" /\ last.result
        /\ last'.op = "add" /\ last'.result
        /\ last'.id = last.id /\ last'.content = last.content
        /\ last'.metadata = last.metadata) =>
          /\ DOMAIN documents' = DOMAIN documents
          /\ documents'[last.id].content = documents[last.id].content
          /\ documents'[last.id].created_at = documents[last.id].created_at
          /\ RowsToDict(document_metadata', last.id)
                 = RowsToDict(document_metadata, last.id)]_vars

\* the drift between the stores as sync_databases reports it with both stores
\* answering
Drift(docs, rows, coll) == sync_databases_result(docs, rows, coll, "ok", "ok")

\* C12: ListAllIds returns a list; when the relational call succeeds the list
\* holds every id of the relational store and nothing else; when the
\* relational call fails and the vector store answers, the list holds the ids
\* the vector store enumerates.
C12_ListFallsBackToVectorStore ==
    last.op = "list" =>
        /\ last.result
        /\ last.sqlite = "ok" => last.ids = DOMAIN documents
        /\ (last.sqlite = "error" /\ last.vector = "ok") => last.ids = DOMAIN chroma

\* C13: with both stores answering, the reported status is `synchronized`
\* exactly when no id is in one store only; with drift it is `minor_drift`
\* when min(relational_count, vector_count) / relational_count * 100 (100 for
\* relational_count = 0) is at least 90 and `out_of_sync` when it is below 90.
C13_SyncStatusFollowsDrift ==
    (last.op = "sync_status" /\ last.sqlite = "ok" /\ last.vector = "ok") =>
        LET relational_count == Cardinality(DOMAIN documents)
            vector_count     == Cardinality(DOMAIN chroma)
            drift            == DOMAIN documents # DOMAIN chroma
        IN  /\ (last.report.status = "synchronized") = ~drift
            /\ drift => last.report.status =
                   IF below_ninety(relational_count, vector_count)
                   THEN "out_of_sync" ELSE "minor_drift"

\* C14: every id that was in one store only before Repair and still is after
\* it (a projection Repair did not insert, a projection it did not delete) is
\* in the errors list Repair returns.
C14_RepairReportsWhatItLeft ==
    [][last'.op = "repair" =>
          /\ \A i \in (DOMAIN documents) \ (DOMAIN chroma) :
                i \notin DOMAIN chroma' => i \in last'.errors
          /\ \A i \in (DOMAIN chroma) \ (DOMAIN documents) :
                i \in DOMAIN chroma' => i \in last'.errors]_vars

\* C15: a Repair that follows a Repair with no write in between changes
\* nothing in the vector store and leaves the drift (counts and the two
\* one-sided id sets) as the first Repair left it.
C15_SecondRepairChangesNothing ==
    [][(last.op = "repair" /\ last'.op = "repair") =>
          /\ chroma' = chroma
          /\ Drift(documents', document_metadata', chroma')
                 = Drift(documents, document_metadata, chroma)]_vars

\* C16: HealthCheck reports sqlite_db true exactly when the relational probe
\* succeeds, chroma_db true exactly when the vector probe succeeds, each
\* whatever the other store does, and overall as their conjunction.
C16_HealthFlagsFollowProbes ==
    last.op = "health" =>
        /\ last.report.sqlite_db = (last.sqlite = "ok")
        /\ last.report.chroma_db = (last.vector = "ok")
        /\ last.report.overall = (last.report.sqlite_db /\ last.report.chroma_db)

(***************************************************************************)
(* C17..C19: the hash ledger                                               *)
(***************************************************************************)
\* the save_file_hash calls that returned and did not meet an sqlite outage
Returned(s) ==
    /\ saving[s].pc = "idle" /\ saving[s].file_hash # ""
    /\ saving[s].raised # "sqlite3.OperationalError"

\* C17: a check_duplicate that sqlite answers returns (true, docId, true) when
\* the ledger holds a row for (h, c, p), docId being that row's document;
\* otherwise (true, docId, false) when it holds a row with hash h, docId being
\* that row's document; otherwise (false, null, false).  So for a hash a
\* save_file_hash call reported newly saved, the check returns the document it
\* was saved for, as an exact duplicate for the saved client and path and as a
\* content duplicate for any other.
C17_CheckIsExactThenContent ==
    [][(checked' # checked /\ checked'.raised = "none") =>
          LET h       == checked'.file_hash
              c       == checked'.client_id
              p       == checked'.original_path
              exact   == rows_exact(file_hashes, h, c, p)
              content == rows_hash(file_hashes, h)
          IN  /\ exact # {} =>
                    /\ checked'.is_duplicate /\ checked'.is_path_duplicate
                    /\ \E r \in exact : checked'.document_id = r.document_id
              /\ (exact = {} /\ content # {}) =>
                    /\ checked'.is_duplicate /\ ~checked'.is_path_duplicate
                    /\ \E r \in content : checked'.document_id = r.document_id
              /\ content = {} =>
                    /\ ~checked'.is_duplicate /\ ~checked'.is_path_duplicate
                    /\ checked'.document_id = 0
              /\ \A s \in Savers :
                    (saving[s].pc = "idle" /\ saving[s].result
                        /\ saving[s].file_hash = h) =>
                       /\ checked'.is_duplicate
                       /\ checked'.document_id = saving[s].document_id
                       /\ checked'.is_path_duplicate =
                              (c = saving[s].client_id /\ p = saving[s].original_path)]_vars

\* C17 witness: a hash saved for one client is checked for another client and
\* found as a content duplicate of the saved document
C17_Witness ==
    /\ checked.is_duplicate /\ ~checked.is_path_duplicate
    /\ \E s \in Savers :
          /\ saving[s].pc = "idle" /\ saving[s].result
          /\ saving[s].file_hash = checked.file_hash
          /\ saving[s].client_id # checked.client_id
          /\ saving[s].document_id = checked.document_id

\* C18: of the save_file_hash calls made for one (hash, client, path), however
\* they interleave, exactly one returned True, and the ledger holds exactly
\* one row for it.
C18_OneSavePerTriple ==
    \A s \in Savers :
        Returned(s) =>
            LET h == saving[s].file_hash
                c == saving[s].client_id
                p == saving[s].original_path
            IN  /\ newly_saved[<<h, c, p>>] = 1
                /\ Cardinality(rows_exact(file_hashes, h, c, p)) = 1

\* C19: after save_file_hash was called for (h, c2, p2) while the ledger held
\* h for another client or path with the same document, the call has reported
\* newly saved, the ledger holds a row for (h, c2, p2) too, and
\* check_duplicate(h, c2, p2) answers an exact-path duplicate.
C19_SameHashNewPathIsNewRow ==
    \A s \in Savers :
        LET h == saving[s].file_hash
            c == saving[s].client_id
            p == saving[s].original_path
        IN  (/\ Returned(s)
             /\ \E r \in rows_hash(file_hashes, h) :
                   /\ <<r.client_id, r.original_path>> # <<c, p>>
                   /\ r.document_id = saving[s].document_id) =>
                /\ newly_saved[<<h, c, p>>] = 1
                /\ rows_exact(file_hashes, h, c, p) # {}
                /\ check_duplicate_result(file_hashes, h, c, p, "ok").is_path_duplicate

(***************************************************************************)
(* C20: the life of a reconciliation job                                   *)
(***************************************************************************)
Terminal == {"completed", "failed"}

\* the counters of a job row
Counters(row) ==
    <<row.total_files, row.processed_files, row.added_files, row.updated_files,
      row.removed_files, row.errors>>

\* C20: a job row appears with status `running`; its status changes at most
\* once, from `running` to `completed` or `failed`; a row whose status is
\* terminal is never written again (status and counters stay); and in every
\* state a row has an end_time exactly when its status is terminal.
C20_JobEndsOnceAndStaysEnded ==
    [][/\ \A j \in (DOMAIN jobs') \ (DOMAIN jobs) :
             jobs'[j].status = "running"
       /\ \A j \in DOMAIN jobs :
             /\ j \in DOMAIN jobs'
             /\ jobs'[j].status # jobs[j].status =>
                   (jobs[j].status = "running" /\ jobs'[j].status \in Terminal)
             /\ jobs[j].status \in Terminal =>
                   /\ jobs'[j].status = jobs[j].status
                   /\ Counters(jobs'[j]) = Counters(jobs[j])
       /\ \A j \in DOMAIN jobs' :
             (jobs'[j].end_time # Null) = (jobs'[j].status \in Terminal)]_vars

\* C20 witness: a job ended completed with its end_time and its task went on
\* to write the statistics and returned
C20_Witness ==
    \E j \in DOMAIN jobs :
        /\ jobs[j].status = "completed" /\ jobs[j].end_time # Null
        /\ running[j].pc = "done"

(***************************************************************************)
(* C21..C24: what a finished job recorded                                  *)
(***************************************************************************)
\* C21: a job whose task has run to its end has a terminal status and an
\* end_time; and when an exception was raised inside a phase of the task
\* (counted in the task's errors, or carried to its handler) the job ended
\* failed with the detail recorded.
C21_EveryJobEnds ==
    \A j \in DOMAIN running :
        running[j].pc = "done" =>
            /\ jobs[j].status \in Terminal
            /\ jobs[j].end_time # Null
            /\ (running[j].errors > 0 \/ running[j].error_msg # "") =>
                  (jobs[j].status = "failed" /\ jobs[j].error_message # "")

\* C22: in every state of a job row, processed_files is at most total_files
\* once total_files is recorded; and no write of the row, the final one
\* included, lowers processed_files, added_files, updated_files,
\* removed_files or errors.
C22_CountersOnlyGrow ==
    [][/\ \A j \in DOMAIN jobs' :
             jobs'[j].total_files # Null =>
                 jobs'[j].processed_files <= jobs'[j].total_files
       /\ \A j \in (DOMAIN jobs) \cap (DOMAIN jobs') :
             /\ jobs'[j].processed_files >= jobs[j].processed_files
             /\ jobs'[j].added_files >= jobs[j].added_files
             /\ jobs'[j].updated_files >= jobs[j].updated_files
             /\ jobs'[j].removed_files >= jobs[j].removed_files
             /\ jobs'[j].errors >= jobs[j].errors]_vars

\* C22 witness: a job that went through two files one batch at a time, met an
\* error and was completed, every write recorded
C22_Witness ==
    \E j \in DOMAIN jobs :
        /\ jobs[j].status = "completed" /\ running[j].batch_size = 1
        /\ jobs[j].total_files = 2 /\ jobs[j].processed_files = 2
        /\ jobs[j].added_files = 2 /\ jobs[j].errors = 1

\* C23: a job that met no failure and ended completed, run over the files F
\* while the vector store held documents for the paths V, has recorded
\* added_files = |F - V|, updated_files = the number of paths of F and V whose
\* hash differs from the recorded one, and removed_files = |V - F| with
\* delete_missing and 0 without.
C23_CountsFollowTheTwoSets ==
    \A j \in DOMAIN running :
        (/\ running[j].pc = "done" /\ jobs[j].status = "completed"
         /\ running[j].errors = 0) =>
            LET F == running[j].files
                V == running[j].held
            IN  /\ jobs[j].added_files = Cardinality(F \ V)
                /\ jobs[j].updated_files = Cardinality(running[j].changed)
                /\ jobs[j].removed_files =
                       IF running[j].delete_missing THEN Cardinality(V \ F) ELSE 0

\* C24: a job during whose walk a monitored directory could not be read has
\* ended failed, with an error message and an end_time, and has added,
\* updated and removed nothing.
C24_UnreadableDirectoryFailsTheJob ==
    \A j \in DOMAIN running :
        (running[j].pc = "done" /\ running[j].unread) =>
            /\ jobs[j].status = "failed"
            /\ jobs[j].error_message # ""
            /\ jobs[j].end_time # Null
            /\ running[j].added = 0 /\ running[j].updated = 0 /\ running[j].removed = 0

(***************************************************************************)
(* C25: cancelling a job                                                   *)
(***************************************************************************)
\* C25: a Cancel of a running job is accepted and ends it as cancelled; a
\* Cancel of any other job is refused and changes no job; a cancelled job
\* stays cancelled, and after the cancel no further batch of it is processed.
C25_CancelStopsTheJob ==
    [][/\ (last' # last /\ last'.op = "cancel") =>
             LET j == last'.id
             IN  IF j \in DOMAIN jobs /\ jobs[j].status = "running"
                 THEN last'.result /\ jobs'[j].status = "cancelled"
                 ELSE ~last'.result /\ jobs' = jobs
       /\ \A j \in DOMAIN jobs :
             jobs[j].status = "cancelled" =>
                 /\ jobs'[j].status = "cancelled"
                 /\ running'[j].processed = running[j].processed]_vars

(***************************************************************************)
(* C26: the next scheduled run                                             *)
(***************************************************************************)
\* seconds since the start of day 0
SecondsOf(t) == ((t.day * 24 + t.hour) * 60 + t.minute) * 60 + t.second

\* C26: for a schedule hh:mm, the result is today at hh:mm:00 when that is
\* strictly later than now and tomorrow at hh:mm:00 otherwise, now = hh:mm:00
\* included; it is strictly later than now and at most 24 hours after it.
C26_NextRunIsTheNextOccurrence ==
    (last.op = "next_run" /\ last.report.schedule_time # "") =>
        LET now      == last.report.now
            next_run == last.report.next_run
            hm       == parse_schedule_time(last.report.schedule_time)
            today    == (now.day * 24 + hm[1]) * 3600 + hm[2] * 60
        IN  /\ SecondsOf(next_run) =
                   IF today > SecondsOf(now) THEN today ELSE today + 86400
            /\ SecondsOf(next_run) > SecondsOf(now)
            /\ SecondsOf(next_run) - SecondsOf(now) <= 86400

\* C26 witness: asked at 03:00:00 for the schedule 03:00, the answer is
\* tomorrow at 03:00
C26_Witness ==
    /\ last.op = "next_run" /\ last.report.schedule_time = "03:00"
    /\ last.report.now = [day |-> 0, hour |-> 3, minute |-> 0, second |-> 0]
    /\ last.report.next_run = [day |-> 1, hour |-> 3, minute |-> 0, second |-> 0]

(***************************************************************************)
(* C27, C30: the scheduler                                                 *)
(***************************************************************************)
\* C27: every fire has called start_reconciliation with the delete_missing
\* and the batch_size the settings table held when the fire was made.
C27_FireUsesPersistedSettings ==
    \A i \in DOMAIN fires :
        /\ fires[i].delete_missing = (fires[i].persisted.delete_missing = "true")
        /\ fires[i].batch_size = int(fires[i].persisted.batch_size)

\* C30: at most one scheduler thread that no stop() has ended is alive, no
\* trigger instant is fired twice, and no fire is made by a thread whose
\* stop() has returned.
C30_OneLoopOneFire ==
    /\ Cardinality({t \in DOMAIN threads :
                       threads[t].pc # "dead" /\ ~threads[t].stopped}) <= 1
    /\ \A i, k \in DOMAIN fires : i # k => fires[i].due # fires[k].due
    /\ \A i \in DOMAIN fires : ~fires[i].stopped

(***************************************************************************)
(* C28, C29: what a repair and an update leave in the vector store         *)
(***************************************************************************)
\* C28: a Repair never deletes the vector projection of a document that the
\* relational store holds: every id in both stores before a Repair is still
\* in the vector store after it.
C28_RepairKeepsProjectionsOfStoredDocuments ==
    [][(last'.op = "repair" /\ clock' # clock) =>
          \A i \in DOMAIN documents :
              i \in DOMAIN chroma => i \in DOMAIN chroma']_vars

\* C29: an Update that names a content, on a document that has a projection,
\* leaves the vector store with a projection of the document, holding the
\* new content or the content it held before.
C29_UpdateKeepsAProjection ==
    [][(last'.op = "update" /\ clock' # clock /\ last'.has_content
          /\ last'.id \in DOMAIN chroma) =>
          /\ last'.id \in DOMAIN chroma'
          /\ chroma'[last'.id].document
                 \in {last'.content, chroma[last'.id].document}]_vars

====
